---- MODULE Spec2Model ----
(***************************************************************************)
(* Model of mkdockyard (src/src/mkdockyard/main.py): the cache             *)
(* synchronization engine of MkdockyardPlugin.on_config and the pruner     *)
(* MkdockyardPlugin.prune_cache.                                           *)
(*                                                                         *)
(* A filesystem is the set of directories that exist; a path is the        *)
(* sequence of its components.  The SHA-256 digest of url + ref is         *)
(* represented by the concatenated string itself (an injective encoding    *)
(* of what is hashed).                                                     *)
(***************************************************************************)
EXTENDS Integers, Sequences, FiniteSets, TLC

\* ------------------------------------------------------------------ bounds
\* Longest `repos` list of one configuration.
MaxEntries == 2
\* Longest `cached_repos` list handed to a direct call of prune_cache.
MaxCached == 2

\* ------------------------------------------------------------------ inputs
Names == {"A", "B"}
Urls == {"u"}
Refs == {"r", "s"}
\* _Repos items the configuration may list.
Entries == [name : Names, url : Urls, ref : Refs]
\* (major, minor) pairs `git --version` may report.
Versions == {<<1, 49>>, <<2, 48>>, <<2, 49>>, <<3, 0>>}
\* Values of cache_limit_multiplier.
Multipliers == {0, 1, 2}

\* int(): the numerals the probe's output may hold, and their values.
IntOf == ("0" :> 0) @@ ("1" :> 1) @@ ("2" :> 2) @@ ("3" :> 3) @@ ("48" :> 48) @@ ("49" :> 49)

Numeral(n) == CHOOSE s \in DOMAIN IntOf : IntOf[s] = n

\* `git --version` as subprocess.run sees it: how the process ended, and its
\* stdout as the words str.split(" ") yields, each word as the components
\* str.split(".") yields.
GitAnswers ==
    {[run |-> "ok",
      stdout |-> << <<"git">>, <<"version">>, <<Numeral(v[1]), Numeral(v[2]), "0">> >>] :
        v \in Versions}

GitFailures ==
    {[run |-> "missing", stdout |-> <<>>],
     [run |-> "nonzero", stdout |-> <<>>],
     [run |-> "ok", stdout |-> << <<"git">>, <<"version">> >>],
     [run |-> "ok", stdout |-> << <<"git">>, <<"version">>, <<"2">> >>],
     [run |-> "ok", stdout |-> << <<"git">>, <<"version">>, <<"x", "49", "0">> >>],
     [run |-> "ok", stdout |-> << <<"git">>, <<"version">>, <<"2", "x", "0">> >>]}

GitProbes == GitAnswers \cup GitFailures

NoProbe == [run |-> "pending", stdout |-> <<>>]

SeqsUpTo(S, n) == UNION {[1..k -> S] : k \in 0..n}
Range(s) == {s[k] : k \in DOMAIN s}

\* ------------------------------------------------------------------ paths
\* Path(user_cache_dir("mkdockyard"))
cache_dir == <<"cache">>

joinpath(p, seg) == Append(p, seg)

IsPrefix(p, q) == Len(p) <= Len(q) /\ SubSeq(q, 1, Len(p)) = p

\* PurePath.is_relative_to: lexical, and true of the path itself.
is_relative_to(repo, dir) == IsPrefix(dir, repo)

StrictDescendant(p, dir) == IsPrefix(dir, p) /\ Len(p) > Len(dir)

exists(fs, p) == p \in fs

\* os.listdir: the names of the directory's children.
listdir(fs, p) == {d[Len(d)] : d \in {x \in fs : Len(x) = Len(p) + 1 /\ IsPrefix(p, x)}}

\* os.makedirs: the directory and every missing ancestor.
makedirs(fs, p) == fs \cup {SubSeq(p, 1, k) : k \in 1..Len(p)}

\* shutil.rmtree: the directory and everything below it.
rmtree(fs, p) == {d \in fs : ~IsPrefix(p, d)}

\* os.rename of a directory: its subtree moves with it.
rename(fs, old, new) ==
    {IF IsPrefix(old, d) THEN new \o SubSeq(d, Len(old) + 1, Len(d)) ELSE d : d \in fs}

\* ------------------------------------------------------- build_clone_information
hashed_name(url, ref) == url \o ref

hashed_dir(repo) == joinpath(cache_dir, hashed_name(repo.url, repo.ref))

\* Mutant: the snapshot is placed in the cache root, not in its bucket.
output_path_flat(repo) == joinpath(cache_dir, repo.name)

\* hashed_dir.joinpath(name)
output_path(repo) == joinpath(hashed_dir(repo), repo.name)

\* [info.hashed_dir for info in clone_information]
configured_repos(rs) == [k \in DOMAIN rs |-> hashed_dir(rs[k])]

\* ------------------------------------------------------------------ get_git_version
\* Mutant: an answer that does not parse is taken for version 0.0.
get_git_version_lenient(p) ==
    IF p.run = "ok" /\ Len(p.stdout) >= 3 /\ Len(p.stdout[3]) >= 2
       /\ p.stdout[3][1] \in DOMAIN IntOf /\ p.stdout[3][2] \in DOMAIN IntOf
    THEN [exc |-> "none", version |-> <<IntOf[p.stdout[3][1]], IntOf[p.stdout[3][2]]>>]
    ELSE [exc |-> "none", version |-> <<0, 0>>]

\* Lines 204-212: run the probe, take the third word, split it at the dots,
\* int() of the first two components.
get_git_version(p) ==
    IF p.run = "missing" THEN [exc |-> "FileNotFoundError", version |-> <<0, 0>>]
    ELSE IF p.run = "nonzero" THEN [exc |-> "CalledProcessError", version |-> <<0, 0>>]
    ELSE IF Len(p.stdout) < 3 THEN [exc |-> "IndexError", version |-> <<0, 0>>]
    ELSE LET version_components == p.stdout[3]
         IN IF version_components[1] \notin DOMAIN IntOf
            THEN [exc |-> "ValueError", version |-> <<0, 0>>]
            ELSE IF Len(version_components) < 2
            THEN [exc |-> "IndexError", version |-> <<0, 0>>]
            ELSE IF version_components[2] \notin DOMAIN IntOf
            THEN [exc |-> "ValueError", version |-> <<0, 0>>]
            ELSE [exc |-> "none",
                  version |-> <<IntOf[version_components[1]], IntOf[version_components[2]]>>]

\* ------------------------------------------------------------------ on_config
\* Mutant: the minor version is compared without looking at the major one.
GitSupportsRevision_minor_only(major, minor) == minor >= 49 \/ major > 2

GitSupportsRevision(major, minor) == (major = 2 /\ minor >= 49) \/ major > 2

\* Mutant: the snapshot directory itself is handed to the host.
ResolvedPath_snapshot(repo) == output_path(repo)

\* The value appended to the downstream `paths` list for a finished future.
ResolvedPath(repo) == hashed_dir(repo)

\* n_unused_in_cache > cache_limit
PruneTriggered(n_cached, n_configured, multiplier) ==
    n_cached - n_configured > n_configured * multiplier

\* ------------------------------------------------------------------ prune_cache
\* Mutant: the loop is left after the first deletion.
RECURSIVE prune_cache_first_only(_, _, _, _)
prune_cache_first_only(configured, cached, dir, fs) ==
    IF cached = <<>> THEN [fs |-> fs, exc |-> "none", culprit |-> <<>>]
    ELSE LET repo == Head(cached) IN
         IF repo \in Range(configured)
         THEN prune_cache_first_only(configured, Tail(cached), dir, fs)
         ELSE IF ~is_relative_to(repo, dir)
         THEN [fs |-> fs, exc |-> "PluginError", culprit |-> repo]
         ELSE IF ~exists(fs, repo)
         THEN [fs |-> fs, exc |-> "FileNotFoundError", culprit |-> repo]
         ELSE [fs |-> rmtree(fs, repo), exc |-> "none", culprit |-> <<>>]

\* Lines 374-384.
RECURSIVE prune_cache(_, _, _, _)
prune_cache(configured, cached, dir, fs) ==
    IF cached = <<>> THEN [fs |-> fs, exc |-> "none", culprit |-> <<>>]
    ELSE LET repo == Head(cached) IN
         IF repo \in Range(configured)
         THEN prune_cache(configured, Tail(cached), dir, fs)
         ELSE IF ~is_relative_to(repo, dir)
         THEN [fs |-> fs, exc |-> "PluginError", culprit |-> repo]
         ELSE IF ~exists(fs, repo)
         THEN [fs |-> fs, exc |-> "FileNotFoundError", culprit |-> repo]
         ELSE prune_cache(configured, Tail(cached), dir, rmtree(fs, repo))

\* ------------------------------------------------------------------ state
VARIABLES
    dirs,                  \* the directories that exist
    complete,              \* ghost: the snapshot directories holding a finished checkout
    pc,                    \* on_config: "idle", "probe", "collect" (as_completed loop), "unwind"
    repos,                 \* self.config.repos of the current (or last) run
    git_version,           \* (major, minor) returned by get_git_version
    git_supports_revision, \* the flag passed to every task
    tasks,                 \* one make_dockyard task per entry
    collected,             \* futures whose result the main thread has taken
    paths,                 \* mkdocstrings' python handler `paths` list
    outcome,               \* how the last on_config ended, "running" meanwhile
    startDirs,             \* history: dirs when the run started
    startComplete,         \* history: complete when the run started
    syncDirs,              \* history: dirs when the tasks had joined
    synced,                \* history: every future of the last run returned a value
    rerun,                 \* history: this run repeats the entry list of a synced run
    multiplier,            \* cache_limit_multiplier read by the last run's threshold
    pruned,                \* history: the last run called prune_cache
    probe,                 \* what `git --version` answered in this run
    has_mkdocstrings,      \* "mkdocstrings" is among the configured plugins
    inflight,              \* history: the tasks still running when the loop raised
    prevFailed,            \* history: the entries whose fetch failed in the run before
    cleanStart,            \* history: no run before this one raised
    p_configured,          \* prune_cache called directly: configured_repos
    p_cached,              \*   cached_repos
    p_before,              \*   the directories before the call
    p_done,                \*   the call has returned or raised
    p_result               \*   what the call did

syncVars == <<pc, repos, git_version, git_supports_revision, tasks, collected, paths,
              outcome, startDirs, startComplete, syncDirs, synced, rerun, multiplier,
              pruned, probe, has_mkdocstrings, inflight, prevFailed, cleanStart>>
pruneVars == <<p_configured, p_cached, p_before, p_done, p_result>>
fsVars == <<dirs, complete>>
vars == <<fsVars, syncVars, pruneVars>>

NewTask == [pc |-> "start", branch |-> "-", old |-> "-", exc |-> "none",
            git |-> "-", cmds |-> <<>>, touched |-> {}]

Terminated(t) == t.pc \in {"done", "failed"}
AllTerminated == \A i \in DOMAIN tasks : Terminated(tasks[i])
Running == pc \in {"collect", "unwind"}

NoResult == [exc |-> "none", culprit |-> <<>>]

SyncInit ==
    /\ pc = "idle"
    /\ repos = <<>>
    /\ git_version = <<0, 0>>
    /\ git_supports_revision = FALSE
    /\ tasks = <<>>
    /\ collected = {}
    /\ paths = << <<".">> >>
    /\ outcome = "none"
    /\ startDirs = {}
    /\ startComplete = {}
    /\ syncDirs = {}
    /\ synced = FALSE
    /\ rerun = FALSE
    /\ multiplier = 2
    /\ pruned = FALSE
    /\ probe = NoProbe
    /\ has_mkdocstrings = TRUE
    /\ inflight = {}
    /\ prevFailed = {}
    /\ cleanStart = TRUE

\* The cache directory does not exist before the first build.
Init ==
    /\ dirs = {}
    /\ complete = {}
    /\ SyncInit
    /\ p_configured = <<>>
    /\ p_cached = <<>>
    /\ p_before = {}
    /\ p_done = FALSE
    /\ p_result = NoResult

\* ------------------------------------------------------------------ on_config
\* The entries of `rs` whose fetch failed in the run that just ended.
FetchFailed(rs) ==
    {k \in DOMAIN rs :
        \E i \in DOMAIN tasks :
            /\ repos[i] = rs[k]
            /\ tasks[i].branch = "clone"
            /\ tasks[i].exc = "CalledProcessError"}

\* Lines 116-117: the host calls on_config with a configuration.
StartRun ==
    /\ pc = "idle"
    /\ \E rs \in SeqsUpTo(Entries, MaxEntries) :
        /\ repos' = rs
        /\ rerun' = (synced /\ rs = repos)
        /\ prevFailed' = FetchFailed(rs)
    /\ pc' = "probe"
    /\ tasks' = <<>>
    /\ collected' = {}
    /\ paths' = << <<".">> >>
    /\ outcome' = "running"
    /\ startDirs' = dirs
    /\ startComplete' = complete
    /\ syncDirs' = dirs
    /\ synced' = FALSE
    /\ git_version' = <<0, 0>>
    /\ git_supports_revision' = FALSE
    /\ multiplier' = 2
    /\ pruned' = FALSE
    /\ probe' = NoProbe
    /\ has_mkdocstrings' = TRUE
    /\ inflight' = {}
    /\ cleanStart' = (cleanStart /\ outcome \in {"none", "ok"})
    /\ UNCHANGED <<fsVars, pruneVars>>

\* Lines 119-154: the probe answers, "mkdocstrings" is configured,
\* build_clone_information, and one make_dockyard task is submitted per entry.
Dispatch ==
    /\ pc = "probe"
    /\ \E p \in GitProbes :
        /\ get_git_version(p).exc = "none"
        /\ probe' = p
        /\ git_version' = get_git_version(p).version
        /\ git_supports_revision' =
              GitSupportsRevision(get_git_version(p).version[1],
                                  get_git_version(p).version[2])
    /\ tasks' = [k \in DOMAIN repos |-> NewTask]
    /\ pc' = "collect"
    /\ UNCHANGED <<fsVars, repos, collected, paths, outcome, startDirs, startComplete,
                   syncDirs, synced, rerun, multiplier, pruned, has_mkdocstrings,
                   inflight, prevFailed, cleanStart, pruneVars>>

\* Lines 120, 204-210: get_git_version raises (git missing or failing, or its
\* output does not parse).
ProbeFails ==
    /\ pc = "probe"
    /\ \E p \in GitProbes :
        /\ get_git_version(p).exc # "none"
        /\ probe' = p
        /\ outcome' = get_git_version(p).exc
    /\ pc' = "idle"
    /\ UNCHANGED <<fsVars, repos, git_version, git_supports_revision, tasks, collected,
                   paths, startDirs, startComplete, syncDirs, synced, rerun, multiplier,
                   pruned, has_mkdocstrings, inflight, prevFailed, cleanStart, pruneVars>>

\* Lines 126-134: "mkdocstrings" is not among the plugins.
PluginMissing ==
    /\ pc = "probe"
    /\ \E p \in GitProbes :
        /\ get_git_version(p).exc = "none"
        /\ probe' = p
        /\ git_version' = get_git_version(p).version
        /\ git_supports_revision' =
              GitSupportsRevision(get_git_version(p).version[1],
                                  get_git_version(p).version[2])
    /\ has_mkdocstrings' = FALSE
    /\ outcome' = "ConfigurationError"
    /\ pc' = "idle"
    /\ UNCHANGED <<fsVars, repos, tasks, collected, paths, startDirs, startComplete,
                   syncDirs, synced, rerun, multiplier, pruned, inflight, prevFailed,
                   cleanStart, pruneVars>>

\* One step of task i: its new record, the new filesystem and the new ghost.
TaskStep(i, t, fs, done) ==
    /\ tasks' = [tasks EXCEPT ![i] = t]
    /\ dirs' = fs
    /\ complete' = done
    /\ UNCHANGED <<pc, repos, git_version, git_supports_revision, collected, paths,
                   outcome, startDirs, startComplete, syncDirs, synced, rerun, multiplier,
                   pruned, probe, has_mkdocstrings, inflight, prevFailed, cleanStart,
                   pruneVars>>

\* ------------------------------------------------------------------ make_dockyard
\* Mutant: the clone branch is chosen by the snapshot directory, so a renamed
\* entry is fetched again.
Branch_by_snapshot(fs, repo) ==
    IF ~exists(fs, output_path(repo)) THEN "clone" ELSE "reuse"

\* Lines 341, 349, 356: the branch make_dockyard takes.
Branch(fs, repo) ==
    IF ~exists(fs, hashed_dir(repo)) THEN "clone"
    ELSE IF ~exists(fs, output_path(repo)) THEN "rename"
    ELSE "reuse"

\* Lines 340-341, 349, 356-359: the existence tests that pick the branch.
Check(i) ==
    /\ Running
    /\ tasks[i].pc = "start"
    /\ LET t == tasks[i]
           hd == hashed_dir(repos[i])
           out == output_path(repos[i])
           branch == Branch(dirs, repos[i])
       IN IF branch = "clone"
          THEN TaskStep(i, [t EXCEPT !.pc = "clone", !.branch = "clone",
                                     !.touched = @ \cup {hd}], dirs, complete)
          ELSE IF branch = "rename"
          THEN TaskStep(i, [t EXCEPT !.pc = "list", !.branch = "rename",
                                     !.touched = @ \cup {hd, out}], dirs, complete)
          ELSE TaskStep(i, [t EXCEPT !.pc = "done", !.branch = "reuse",
                                     !.touched = @ \cup {hd, out}], dirs, complete)

\* Line 350: os.listdir(hashed_dir)[0]; the listing order is the filesystem's.
ListDir(i) ==
    /\ Running
    /\ tasks[i].pc = "list"
    /\ LET t == tasks[i]
           kids == listdir(dirs, hashed_dir(repos[i]))
       IN IF kids = {}
          THEN TaskStep(i, [t EXCEPT !.pc = "failed", !.exc = "IndexError"],
                        dirs, complete)
          ELSE \E k \in kids :
               TaskStep(i, [t EXCEPT !.pc = "rename", !.old = k], dirs, complete)

\* Line 355: os.rename(old_name_path, output_path).
Rename(i) ==
    /\ Running
    /\ tasks[i].pc = "rename"
    /\ LET old_name_path == joinpath(hashed_dir(repos[i]), tasks[i].old)
           out == output_path(repos[i])
           t == [tasks[i] EXCEPT !.touched = @ \cup {old_name_path, out}]
       IN IF ~exists(dirs, old_name_path)
          THEN TaskStep(i, [t EXCEPT !.pc = "failed", !.exc = "FileNotFoundError"],
                        dirs, complete)
          ELSE IF exists(dirs, out)
          THEN TaskStep(i, [t EXCEPT !.pc = "failed", !.exc = "OSError"],
                        dirs, complete)
          ELSE TaskStep(i, [t EXCEPT !.pc = "done"],
                        rename(dirs, old_name_path, out),
                        rename(complete, old_name_path, out))

\* ------------------------------------------------------------------ clone_git_repo
DirectCmds == <<"clone">>
LegacyCmds == <<"makedirs", "init", "remote", "fetch", "checkout">>

\* Lines 280-293, first half of `git clone`: it refuses an existing destination,
\* may fail before touching the disk, or creates the leading directories and
\* the destination.
GitCloneStart(i) ==
    /\ Running
    /\ tasks[i].pc = "clone"
    /\ git_supports_revision
    /\ LET t == [tasks[i] EXCEPT !.cmds = DirectCmds]
           out == output_path(repos[i])
       IN IF exists(dirs, out)
          THEN TaskStep(i, [t EXCEPT !.pc = "failed", !.exc = "CalledProcessError",
                                     !.git = "early", !.touched = @ \cup {out}],
                        dirs, complete)
          ELSE \/ TaskStep(i, [t EXCEPT !.pc = "failed", !.exc = "CalledProcessError",
                                        !.git = "early"], dirs, complete)
               \/ TaskStep(i, [t EXCEPT !.pc = "cloning",
                                        !.touched = @ \cup (makedirs(dirs, out) \ dirs)],
                           makedirs(dirs, out), complete)

\* Second half of `git clone`: the checkout completes, or git fails and removes
\* the destination it created (the leading directories stay).
GitCloneEnd(i) ==
    /\ Running
    /\ tasks[i].pc = "cloning"
    /\ LET t == tasks[i]
           out == output_path(repos[i])
       IN \/ TaskStep(i, [t EXCEPT !.pc = "done", !.git = "ok"],
                      dirs, (complete \cup {out}) \cap dirs)
          \/ TaskStep(i, [t EXCEPT !.pc = "failed", !.exc = "CalledProcessError",
                                   !.git = "late"],
                      rmtree(dirs, out), rmtree(complete, out))

\* Line 296: os.makedirs(output_path).
MakeDirs(i) ==
    /\ Running
    /\ tasks[i].pc = "clone"
    /\ ~git_supports_revision
    /\ LET t == [tasks[i] EXCEPT !.cmds = <<"makedirs">>]
           out == output_path(repos[i])
       IN IF exists(dirs, out)
          THEN TaskStep(i, [t EXCEPT !.pc = "failed", !.exc = "FileExistsError",
                                     !.touched = @ \cup {out}], dirs, complete)
          ELSE TaskStep(i, [t EXCEPT !.pc = "legacy",
                                     !.touched = @ \cup (makedirs(dirs, out) \ dirs)],
                        makedirs(dirs, out), complete)

\* Lines 297-307: init, remote add, fetch, checkout, each with cwd=output_path;
\* the first n succeed.  A failure leaves the destination in place.
LegacyGit(i) ==
    /\ Running
    /\ tasks[i].pc = "legacy"
    /\ LET t == tasks[i]
           out == output_path(repos[i])
       IN IF ~exists(dirs, out)
          THEN TaskStep(i, [t EXCEPT !.pc = "failed", !.exc = "FileNotFoundError",
                                     !.cmds = SubSeq(LegacyCmds, 1, 2)], dirs, complete)
          ELSE \E n \in 0..4 :
               IF n = 4
               THEN TaskStep(i, [t EXCEPT !.pc = "done", !.git = "ok",
                                          !.cmds = LegacyCmds],
                             dirs, complete \cup {out})
               ELSE TaskStep(i, [t EXCEPT !.pc = "failed", !.exc = "CalledProcessError",
                                          !.git = "late",
                                          !.cmds = SubSeq(LegacyCmds, 1, n + 2)],
                             dirs, complete)

\* ------------------------------------------------------------------ on_config
\* Mutant: a failed task is logged and the loop goes on.
Raises_never(exc) == FALSE

\* Lines 157-170: future.result() re-raises whatever the task raised; the loop
\* catches CalledProcessError only, and raises from it.
Raises(exc) == exc # "none"

\* Lines 165-170: the exception that leaves on_config.
Raised(exc) == IF exc = "CalledProcessError" THEN "ConfigurationError" ELSE exc

\* Mutant: the executor is shut down without waiting for its tasks.
ShutdownWaits_nowait == TRUE

\* Line 143: leaving the `with` block calls shutdown(wait=True), which returns
\* once every submitted task, queued ones included, has ended.
ShutdownWaits == AllTerminated

\* Mutant: the loop is left after the first result.
Joined_first_result == collected # {}

\* Lines 155, 172: the as_completed loop is exhausted, every future has been
\* yielded, and the `with` block is left.
Joined == collected = DOMAIN tasks

\* Lines 155-170: one pass of the as_completed loop.
Collect(i) ==
    /\ pc = "collect"
    /\ i \notin collected
    /\ Terminated(tasks[i])
    /\ collected' = collected \cup {i}
    /\ IF Raises(tasks[i].exc)
       THEN /\ pc' = "unwind"
            /\ outcome' = Raised(tasks[i].exc)
            /\ inflight' = {k \in DOMAIN tasks : ~Terminated(tasks[k])}
            /\ UNCHANGED paths
       ELSE /\ paths' = Append(paths, ResolvedPath(repos[i]))
            /\ UNCHANGED <<pc, outcome, inflight>>
    /\ UNCHANGED <<fsVars, repos, git_version, git_supports_revision, tasks, startDirs,
                   startComplete, syncDirs, synced, rerun, multiplier, pruned, probe,
                   has_mkdocstrings, prevFailed, cleanStart, pruneVars>>

\* The exception leaves the `with` block: the executor shuts down with wait=True.
Unwind ==
    /\ pc = "unwind"
    /\ ShutdownWaits
    /\ pc' = "idle"
    /\ syncDirs' = dirs
    /\ UNCHANGED <<fsVars, repos, git_version, git_supports_revision, tasks, collected,
                   paths, outcome, startDirs, startComplete, synced, rerun, multiplier,
                   pruned, probe, has_mkdocstrings, inflight, prevFailed, cleanStart,
                   pruneVars>>

\* The orders in which os.listdir may return the entries of a directory.
Listings(names) == {s \in [1..Cardinality(names) -> names] : Range(s) = names}

\* Lines 172-187: the loop is exhausted, the executor has joined; threshold and prune.
FinishRun ==
    /\ pc = "collect"
    /\ Joined
    /\ pc' = "idle"
    /\ synced' = TRUE
    /\ syncDirs' = dirs
    /\ \E m \in Multipliers :
        /\ multiplier' = m
        /\ IF ~exists(dirs, cache_dir)
           THEN /\ outcome' = "FileNotFoundError"
                /\ pruned' = FALSE
                /\ UNCHANGED fsVars
           ELSE IF PruneTriggered(Cardinality(listdir(dirs, cache_dir)), Len(repos), m)
           THEN \E listing \in Listings(listdir(dirs, cache_dir)) :
                LET cached == [k \in DOMAIN listing |-> joinpath(cache_dir, listing[k])]
                    res == prune_cache(configured_repos(repos), cached, cache_dir, dirs)
                IN /\ dirs' = res.fs
                   /\ complete' = complete \cap res.fs
                   /\ outcome' = IF res.exc = "none" THEN "ok" ELSE res.exc
                   /\ pruned' = TRUE
           ELSE /\ outcome' = "ok"
                /\ pruned' = FALSE
                /\ UNCHANGED fsVars
    /\ UNCHANGED <<repos, git_version, git_supports_revision, tasks, collected, paths,
                   startDirs, startComplete, rerun, probe, has_mkdocstrings, inflight,
                   prevFailed, cleanStart, pruneVars>>

Next ==
    \/ StartRun
    \/ Dispatch
    \/ ProbeFails
    \/ PluginMissing
    \/ \E i \in DOMAIN tasks : Check(i)
    \/ \E i \in DOMAIN tasks : ListDir(i)
    \/ \E i \in DOMAIN tasks : Rename(i)
    \/ \E i \in DOMAIN tasks : GitCloneStart(i)
    \/ \E i \in DOMAIN tasks : GitCloneEnd(i)
    \/ \E i \in DOMAIN tasks : MakeDirs(i)
    \/ \E i \in DOMAIN tasks : LegacyGit(i)
    \/ \E i \in DOMAIN tasks : Collect(i)
    \/ Unwind
    \/ FinishRun

Spec == Init /\ [][Next]_vars

\* ------------------------------------------------- prune_cache called directly
\* Directories a caller of prune_cache may name.
PrunePaths == {cache_dir, <<"cache", "ur">>, <<"cache", "ur", "A">>, <<"cache", "us">>,
               <<"home">>, <<"home", "docs">>}

\* Filesystems over PrunePaths: a directory exists only inside an existing one.
PruneDisks == {fs \in SUBSET PrunePaths :
                 \A p \in fs : Len(p) > 1 => SubSeq(p, 1, Len(p) - 1) \in fs}

\* A call prune_cache(configured_repos, cached_repos, cache_dir) on any such
\* filesystem; the candidates are directories that exist.
PruneInit ==
    /\ dirs \in PruneDisks
    /\ complete = {}
    /\ SyncInit
    /\ p_configured \in SeqsUpTo({<<"cache", "ur">>, <<"cache", "us">>}, 1)
    /\ p_cached \in SeqsUpTo(PrunePaths, MaxCached)
    /\ Range(p_cached) \subseteq dirs
    /\ p_before = dirs
    /\ p_done = FALSE
    /\ p_result = NoResult

\* Lines 374-384, the whole call.
PruneCall ==
    /\ ~p_done
    /\ LET res == prune_cache(p_configured, p_cached, cache_dir, dirs)
       IN /\ dirs' = res.fs
          /\ p_result' = [exc |-> res.exc, culprit |-> res.culprit]
    /\ p_done' = TRUE
    /\ UNCHANGED <<complete, syncVars, p_configured, p_cached, p_before>>

PruneNext == PruneCall

PruneSpec == PruneInit /\ [][PruneNext]_vars

\* ------------------------------------------------------------------ properties
DistinctFps(rs) ==
    \A i, j \in DOMAIN rs : i # j => hashed_dir(rs[i]) # hashed_dir(rs[j])

\* The paths appended to `paths` by the run, after its default entry ".".
Appended == Tail(paths)

Count(s, x) == Cardinality({k \in DOMAIN s : s[k] = x})

\* The entries of the cache root after synchronization that are no configured bucket.
Unused == listdir(syncDirs, cache_dir) \ {hashed_name(r.url, r.ref) : r \in Range(repos)}

\* C1: a candidate of prune_cache that is not configured and is not a strict
\* descendant of cache_dir (cache_dir itself included) makes the call raise
\* PluginError, and the candidate is not deleted.
C1_UnsafeCandidateRaises ==
    p_done =>
        \A k \in DOMAIN p_cached :
            (p_cached[k] \notin Range(p_configured)
             /\ ~StrictDescendant(p_cached[k], cache_dir))
            => (p_result.exc = "PluginError" /\ p_cached[k] \in dirs)

\* C2: when prune_cache aborts with the unsafe-target PluginError it has deleted
\* nothing: the directories after the call are those before it.
C2_AbortDeletesNothing ==
    (p_done /\ p_result.exc = "PluginError") => dirs = p_before

\* C3: after an on_config that returns normally, every configured entry's bucket
\* and snapshot directory exist, and pruning deleted no configured bucket.
C3_LiveDataKept ==
    (pc = "idle" /\ outcome = "ok") =>
        \A k \in DOMAIN repos :
            /\ exists(dirs, hashed_dir(repos[k]))
            /\ exists(dirs, output_path(repos[k]))
            /\ hashed_dir(repos[k]) \notin (syncDirs \ dirs)

\* C4: a run that repeats the entry list of a run whose synchronization succeeded
\* fetches nothing and renames nothing: every task takes the reuse branch and the
\* synchronization leaves the cache as it found it.
C4_SecondRunReuses ==
    rerun =>
        /\ \A i \in DOMAIN tasks :
              tasks[i].branch \in {"-", "reuse"} /\ tasks[i].cmds = <<>>
        /\ IF Running THEN dirs = startDirs ELSE syncDirs = startDirs

\* C7: after a successful synchronization prune_cache is called if and only if
\* the number of unused entries of the cache root exceeds the number of
\* configured entries times the multiplier.
C7_PruneThreshold ==
    (pc = "idle" /\ synced /\ exists(syncDirs, cache_dir)) =>
        (pruned <=> Cardinality(Unused) > Len(repos) * multiplier)

\* C9: every bucket directory holds at most one snapshot directory, in every
\* reachable state.
C9_BucketHoldsOneSnapshot ==
    \A b \in listdir(dirs, cache_dir) :
        Cardinality(listdir(dirs, joinpath(cache_dir, b))) <= 1

\* ------------------------------------------------------------------ properties, continued
Subtree(p) == {q \in dirs \cup startDirs \cup UNION {tasks[i].touched : i \in DOMAIN tasks} :
                 IsPrefix(p, q)}

Dispatched == DOMAIN tasks = DOMAIN repos /\ pc # "probe"

\* The directories when the tasks of the run had all terminated.
AfterSync == IF Running THEN dirs ELSE syncDirs

\* Entry i is the only entry of the run with its fingerprint.
SoleInBucket(i) ==
    \A j \in DOMAIN repos : j # i => hashed_dir(repos[j]) # hashed_dir(repos[i])

\* When the run started, entry i's bucket held the finished snapshot `a` and
\* nothing else, and `a` is not the entry's name.
HeldUnder(i, a) ==
    /\ a # repos[i].name
    /\ listdir(startDirs, hashed_dir(repos[i])) = {a}
    /\ joinpath(hashed_dir(repos[i]), a) \in startComplete

Renamed(i, a) ==
    /\ tasks[i].branch = "rename"
    /\ tasks[i].pc = "done"
    /\ tasks[i].old = a
    /\ tasks[i].cmds = <<>>
    /\ exists(syncDirs, output_path(repos[i]))
    /\ ~exists(syncDirs, joinpath(hashed_dir(repos[i]), a))

\* C5 as stated: an entry synchronized under name A and listed by a later run
\* under name B is renamed A -> B without a fetch, and the path handed to the
\* host carries the new name: it is bucket/B.
C5_RenamedPathCarriesName ==
    (pc = "idle" /\ synced) =>
        \A i \in DOMAIN tasks : \A a \in Names :
            HeldUnder(i, a) =>
                /\ Renamed(i, a)
                /\ output_path(repos[i]) \in Range(Appended)

\* C5 as amended: when the run starts with bucket/A as the only snapshot of the
\* bucket and lists that fingerprint once, under B, the task renames A -> B
\* and fetches nothing; bucket/B exists and bucket/A does not; and when the
\* run's synchronization succeeds the path handed to the host is the bucket.
C5_RenameWithoutRefetch ==
    (pc = "idle" /\ Dispatched) =>
        \A i \in DOMAIN tasks : \A a \in Names :
            (HeldUnder(i, a) /\ SoleInBucket(i)) =>
                /\ Renamed(i, a)
                /\ listdir(syncDirs, hashed_dir(repos[i])) = {repos[i].name}
                /\ synced => hashed_dir(repos[i]) \in Range(Appended)

C5_Witness ==
    /\ pc = "idle" /\ synced /\ outcome = "ok"
    /\ \E i \in DOMAIN tasks :
          HeldUnder(i, "A") /\ SoleInBucket(i) /\ Renamed(i, "A") /\ repos[i].name = "B"

\* C6 as stated: after a successful synchronization the paths handed to the
\* host are the entries' snapshot paths cache_root/fingerprint/name.
C6_ResolvedIsSnapshot ==
    (pc = "idle" /\ synced) =>
        /\ Len(Appended) = Len(repos)
        /\ \A i \in DOMAIN repos :
              Count(Appended, output_path(repos[i]))
                = Cardinality({j \in DOMAIN repos : output_path(repos[j]) = output_path(repos[i])})

\* C6 as amended: after a successful synchronization the paths handed to the
\* host are the entries' bucket directories cache_root/fingerprint, one per entry.
C6_ResolvedIsBucket ==
    (pc = "idle" /\ synced) =>
        /\ Len(Appended) = Len(repos)
        /\ \A i \in DOMAIN repos :
              Count(Appended, hashed_dir(repos[i]))
                = Cardinality({j \in DOMAIN repos : hashed_dir(repos[j]) = hashed_dir(repos[i])})

C6_Witness ==
    /\ pc = "idle" /\ synced /\ outcome = "ok"
    /\ Len(repos) = 2 /\ DistinctFps(repos)
    /\ \A i \in DOMAIN repos : exists(dirs, output_path(repos[i]))

\* C8: every fetch of a run uses the single `git clone` command if and only if
\* the probed version has major > 2, or major = 2 and minor >= 49; otherwise it
\* runs makedirs, init, remote add, fetch, checkout, in this order.
C8_StrategySelection ==
    \A i \in DOMAIN tasks :
        tasks[i].cmds # <<>> =>
            IF git_version[1] > 2 \/ (git_version[1] = 2 /\ git_version[2] >= 49)
            THEN tasks[i].cmds = DirectCmds
            ELSE /\ IsPrefix(tasks[i].cmds, LegacyCmds)
                 /\ tasks[i].git = "ok" => tasks[i].cmds = LegacyCmds

C8_Witness ==
    /\ git_version = <<2, 48>>
    /\ \E i \in DOMAIN tasks : tasks[i].pc = "done" /\ tasks[i].cmds = LegacyCmds

\* ------------------------------------------------- the tasks run one after another
\* What make_dockyard does to the filesystem `fs` when nothing runs beside it,
\* given the outcome `g` of its git invocation and the entry `old` its listing
\* returned first: the filesystem after it and the exception it ends with.
SeqTask(fs, repo, supports, g, old) ==
    LET hd == hashed_dir(repo)
        out == joinpath(hd, repo.name)
        failed == "CalledProcessError"
    IN IF ~exists(fs, hd)
       THEN IF g = "ok" THEN [fs |-> makedirs(fs, out), exc |-> "none"]
            ELSE IF g = "-" THEN [fs |-> fs, exc |-> "no fetch"]
            ELSE IF ~supports THEN [fs |-> makedirs(fs, out), exc |-> failed]
            ELSE IF g = "late" THEN [fs |-> makedirs(fs, hd), exc |-> failed]
            ELSE [fs |-> fs, exc |-> failed]
       ELSE IF ~exists(fs, out)
       THEN IF listdir(fs, hd) = {} THEN [fs |-> fs, exc |-> "IndexError"]
            ELSE IF old \notin listdir(fs, hd) THEN [fs |-> fs, exc |-> "no such entry"]
            ELSE [fs |-> rename(fs, joinpath(hd, old), out), exc |-> "none"]
       ELSE [fs |-> fs, exc |-> "none"]

\* The tasks k, k+1, ... of the run, one after another, from `fs`.
RECURSIVE SeqRun(_, _)
SeqRun(fs, k) ==
    IF k > Len(repos) THEN [fs |-> fs, excs |-> <<>>]
    ELSE LET one == SeqTask(fs, repos[k], git_supports_revision, tasks[k].git, tasks[k].old)
             rest == SeqRun(one.fs, k + 1)
         IN [fs |-> rest.fs, excs |-> <<one.exc>> \o rest.excs]

\* Every interleaving ends where the tasks run one after another end: the same
\* directories, the same result of every task, the same set of resolved paths.
SameAsSequential ==
    /\ (Dispatched /\ AllTerminated) =>
          /\ AfterSync = SeqRun(startDirs, 1).fs
          /\ \A i \in DOMAIN tasks : tasks[i].exc = SeqRun(startDirs, 1).excs[i]
    /\ (pc = "idle" /\ synced) =>
          Range(Appended) = {hashed_dir(repos[i]) : i \in DOMAIN repos}

\* C10 as stated: with pairwise distinct fingerprints every task creates,
\* renames and reads only paths inside its own bucket, and every interleaving
\* ends as the sequential run does.
C10_OnlyOwnBucket ==
    DistinctFps(repos) =>
        /\ \A i \in DOMAIN tasks : tasks[i].touched \subseteq Subtree(hashed_dir(repos[i]))
        /\ SameAsSequential

\* C10 as amended: the same, except that a task that fetches also creates the
\* shared cache root when the run started without one.
C10_OwnBucketOrNewRoot ==
    DistinctFps(repos) =>
        /\ \A i \in DOMAIN tasks :
              tasks[i].touched \subseteq
                  Subtree(hashed_dir(repos[i])) \cup ({cache_dir} \ startDirs)
        /\ SameAsSequential

C10_Witness ==
    /\ Running /\ AllTerminated
    /\ Len(repos) = 2 /\ DistinctFps(repos)
    /\ tasks[1].branch = "clone" /\ tasks[1].exc = "none"
    /\ tasks[2].branch = "rename" /\ tasks[2].exc = "none"
    /\ cache_dir \in startDirs


\* One step of task i, whichever it is.
TaskNext(i) ==
    \/ Check(i)
    \/ ListDir(i)
    \/ Rename(i)
    \/ GitCloneStart(i)
    \/ GitCloneEnd(i)
    \/ MakeDirs(i)
    \/ LegacyGit(i)

\* Some task of the run ended by raising.
SomeTaskFailed == \E i \in DOMAIN tasks : tasks[i].exc # "none"

\* C11: a task's failure does not abort its siblings.  While the error is on its
\* way out of on_config every task that has not ended can still take its next
\* step, and once on_config has raised every dispatched task has ended.
C11_SiblingsRunToEnd ==
    /\ pc = "unwind" =>
          \A k \in DOMAIN tasks : ~Terminated(tasks[k]) => ENABLED TaskNext(k)
    /\ (pc = "idle" /\ SomeTaskFailed) => AllTerminated

\* A git failure was raised while a sibling was running, and the sibling went on
\* to complete its fetch before on_config raised.
C11_Witness ==
    /\ pc = "idle"
    /\ outcome = "ConfigurationError"
    /\ \E k \in inflight : tasks[k].pc = "done" /\ tasks[k].git = "ok"

\* The probe ran git and its output holds a version of two leading integers.
WellFormedAnswer(p) ==
    /\ p.run = "ok"
    /\ Len(p.stdout) >= 3
    /\ Len(p.stdout[3]) >= 2
    /\ p.stdout[3][1] \in DOMAIN IntOf
    /\ p.stdout[3][2] \in DOMAIN IntOf

\* C12: when the version probe fails (git missing, git failing, output that does
\* not parse) or "mkdocstrings" is not configured, on_config raises with no task
\* dispatched, no path appended, nothing pruned and the cache as it found it.
C12_AbortBeforeSideEffects ==
    (probe # NoProbe /\ (~WellFormedAnswer(probe) \/ ~has_mkdocstrings)) =>
        /\ pc = "idle"
        /\ outcome \notin {"ok", "running", "none"}
        /\ tasks = <<>>
        /\ Appended = <<>>
        /\ ~pruned
        /\ dirs = startDirs
        /\ complete = startComplete

\* The probe's output did not parse in a run whose entry had no bucket yet.
C12_Witness ==
    /\ pc = "idle"
    /\ probe.run = "ok"
    /\ ~WellFormedAnswer(probe)
    /\ \E i \in DOMAIN repos : ~exists(dirs, hashed_dir(repos[i]))

\* C13: every failure of a task that on_config collects leaves on_config as a
\* ConfigurationError, and as no other exception.
C13_TaskFailureIsConfigurationError ==
    \A i \in collected : tasks[i].exc # "none" => outcome = "ConfigurationError"

\* C14: an entry whose fetch failed in the run before is fetched again: its task
\* takes the clone branch, not the reuse or the rename branch.
C14_FailedFetchRetried ==
    \A k \in prevFailed \cap DOMAIN tasks : tasks[k].branch \in {"-", "clone"}

\* C15: the threshold/pruning step, and every removal of an entry of the cache
\* root, happens in a step before which every task of the run has ended.
C15_PruneAfterJoin ==
    [][((synced' /\ ~synced)
        \/ ~(listdir(dirs, cache_dir) \subseteq listdir(dirs', cache_dir)))
       => (pc = "collect" /\ AllTerminated)]_vars

\* A run that fetched an entry went on to prune, and the pruning deleted something.
C15_Witness ==
    /\ pc = "idle"
    /\ pruned
    /\ dirs # syncDirs
    /\ \E i \in DOMAIN tasks : tasks[i].branch = "clone" /\ tasks[i].git = "ok"

\* C16: whenever a task is about to start clone_git_repo, the bucket of its
\* entry does not exist.
C16_FetcherOnlyWithoutBucket ==
    \A i \in DOMAIN tasks :
        tasks[i].pc = "clone" => ~exists(dirs, hashed_dir(repos[i]))

\* C17: after a pruning that was triggered and raised nothing, the entries of the
\* cache root are exactly the buckets of the configured entries.
C17_PruneLeavesConfigured ==
    (pc = "idle" /\ pruned /\ outcome = "ok") =>
        listdir(dirs, cache_dir) = {hashed_name(r.url, r.ref) : r \in Range(repos)}

\* A pruning that had unused entries to delete beside a configured one.
C17_Witness ==
    /\ pc = "idle"
    /\ pruned
    /\ outcome = "ok"
    /\ repos # <<>>
    /\ Unused # {}

\* C18: a run in which a task failed never reaches the threshold/pruning step,
\* and no entry of the cache root that existed when it started is gone.
C18_FailedRunNeverPrunes ==
    (pc \in {"unwind", "idle"} /\ SomeTaskFailed) =>
        /\ ~synced
        /\ ~pruned
        /\ listdir(startDirs, cache_dir) \subseteq listdir(dirs, cache_dir)

\* A run ended with a fetch error while the cache held more unused entries than
\* the least limit allows.
C18_Witness ==
    /\ pc = "idle"
    /\ outcome = "ConfigurationError"
    /\ \E i \in DOMAIN tasks : tasks[i].git \in {"early", "late"}
    /\ PruneTriggered(Cardinality(listdir(dirs, cache_dir)), Len(repos), 0)

\* C19: a run whose probe parsed, with "mkdocstrings" configured, pairwise
\* distinct fingerprints (the empty list included) and no failing git command,
\* started on a cache root that did not exist or that earlier runs, none of which
\* raised, left behind, ends without raising.
C19_RunsToNormalEnd ==
    (/\ pc = "idle"
     /\ WellFormedAnswer(probe)
     /\ has_mkdocstrings
     /\ DistinctFps(repos)
     /\ \A i \in DOMAIN tasks : tasks[i].git \notin {"early", "late"}
     /\ (startDirs = {} \/ cleanStart))
    => outcome = "ok"

====
